---------------------------- MODULE Spec2Model ----------------------------
(***************************************************************************)
(* ShQ queue discipline (ShqQueueDisc) and the Lgc/DCTCP sender-side       *)
(* estimator (TcpLgc), modelled as two state machines.                     *)
(*                                                                         *)
(* Spec     : the ShQ controller driven by the event simulator.            *)
(* SpecReinit : Spec with InitializeParams run again at any time.         *)
(* SpecConfigured : Spec with the attributes Alpha and MaxP set by the     *)
(*            user instead of left at their defaults.                      *)
(* SpecWide : Spec with a 5 MB buffer counted in bytes and a backlog of    *)
(*            more than 2^32 / MeanPktSize bytes.                          *)
(* LgcSpec  : the congestion estimator driven by acknowledgment batches.   *)
(* LgcWideSpec : LgcSpec with batches of close to 2^32 bytes.              *)
(* LgcForkSpec : LgcSpec with Fork and the sender moving between the two   *)
(*            objects.                                                     *)
(*                                                                         *)
(* Numbers.  C++ doubles are modelled as exact rationals <<n, d>> (d > 0), *)
(* with <<1,0>>, <<-1,0>> and <<0,0>> standing for +inf, -inf and NaN.     *)
(* Byte quantities held in 32-bit unsigned fields are counted in words of  *)
(* BytesPerWord bytes, so that the 32-bit wrap (2^32 bytes = U32Mod words) *)
(* fits 32-bit signed integers; every packet size of the model is a whole  *)
(* number of words, which makes the scaling exact.                         *)
(***************************************************************************)
EXTENDS Integers, Sequences, FiniteSets, TLC

---------------------------------------------------------------------------
(* Bounds of the model *)

MaxArrivals == 2      \* packets offered to DoEnqueue
MaxTime == 2          \* simulated time, in ticks
MaxSizeP == 2         \* MaxSize of the queue disc, in packets

---------------------------------------------------------------------------
(* Number representation *)

BytesPerWord == 2^3
U32Mod == 2^29                     \* 2^32 bytes, in words
Wrap32(x) == x % U32Mod            \* uint32_t arithmetic on word counts

Abs(x) == IF x < 0 THEN -x ELSE x
Sign(x) == IF x < 0 THEN -1 ELSE IF x = 0 THEN 0 ELSE 1

RECURSIVE GCD(_, _)
GCD(a, b) == IF b = 0 THEN a ELSE GCD(b, a % b)

\* the double n/d; a zero denominator gives +inf, -inf or NaN as IEEE does
Rat(n, d) ==
    IF d = 0 THEN <<Sign(n), 0>>
    ELSE LET g == GCD(Abs(n), Abs(d))
             s == Sign(d)
         IN  <<(s * n) \div g, (s * d) \div g>>

Zero == <<0, 1>>
One == <<1, 1>>
Inf == <<1, 0>>
NaN == <<0, 0>>
FromInt(i) == <<i, 1>>
IsFinite(x) == x[2] # 0
IsNaN(x) == x = NaN

DAdd(x, y) == Rat(x[1] * y[2] + y[1] * x[2], x[2] * y[2])
DSub(x, y) == Rat(x[1] * y[2] - y[1] * x[2], x[2] * y[2])
DMul(x, y) == Rat(x[1] * y[1], x[2] * y[2])
\* x / y for finite x, y: y = 0 gives +-inf (x # 0) or NaN (x = 0)
DDiv(x, y) == IF y[1] < 0 THEN Rat(-(x[1] * y[2]), x[2] * (-y[1]))
              ELSE Rat(x[1] * y[2], x[2] * y[1])
\* x < y; every comparison with NaN is false
DLess(x, y) ==
    IF IsNaN(x) \/ IsNaN(y) THEN FALSE
    ELSE IF ~IsFinite(x) /\ ~IsFinite(y) THEN x[1] < y[1]
    ELSE IF ~IsFinite(x) THEN x[1] < 0
    ELSE IF ~IsFinite(y) THEN y[1] > 0
    ELSE LET g == GCD(x[2], y[2])
         IN  x[1] * (y[2] \div g) < y[1] * (x[2] \div g)
DLeq(x, y) == ~IsNaN(x) /\ ~IsNaN(y) /\ ~DLess(y, x)
\* static_cast<uint32_t> of a finite non-negative double: truncation
Trunc(x) == x[1] \div x[2]


---------------------------------------------------------------------------
(* ShqQueueDisc: attributes *)

m_meanPktSize == 1000 \div BytesPerWord       \* MeanPktSize, in words
AlphaDefault == Rat(1, 4)                     \* Alpha, DoubleValue (0.25)
MaxPDefault == Rat(9, 10)                     \* MaxP, DoubleValue (0.9)
\* values the attributes Alpha and MaxP accept: MakeDoubleChecker<double> ()
\* admits every double, the default and a negative one stand for them
AlphaValues == {AlphaDefault, Rat(-1, 4)}
MaxPValues == {MaxPDefault, Rat(-9, 10)}
m_tInterval == 1                              \* Tinterval: one tick is 15 ms
IntervalSeconds == Rat(15, 1000)              \* m_tInterval.GetSeconds ()
\* LinkBandwidth values, bit/s: the default, a slow link and a very slow one
BitRates == {100000000, 64000, 8}
\* sizes of the arriving packets, in words (1000 and 2000 bytes)
PktSizes == {1000 \div BytesPerWord, 2000 \div BytesPerWord}
\* values of the uniform random variable, in [0,1): the lowest and a high one
UValues == {Rat(0, 1), Rat(99, 100)}
\* values an uninitialized uint32_t / double member may hold
GarbageU32 == {0, 5}
GarbageDouble == {Zero, Rat(7, 2)}

Modes == {"p", "b"}                           \* QueueSizeUnit PACKETS / BYTES
\* MaxSize attribute of the queue disc in the unit md (words in byte mode)
MaxSizeOf(md) == IF md = "p" THEN MaxSizeP ELSE MaxSizeP * (1000 \div BytesPerWord)
\* a queue the user attached before initialization: one packet, whatever the
\* MaxSize attribute of the queue disc says
UserQueueUnit == "p"
UserQueueMax == 1

VARIABLES
    phase,          \* "constructed", "running", "disposed", "aborted", "crashed"
    mode,           \* unit of QueueDisc::m_maxSize
    m_maxSize,      \* value of QueueDisc::m_maxSize
    m_useEcn,
    m_linkBandwidth,
    m_alpha,        \* double, attribute Alpha
    m_maxP,         \* double, attribute MaxP
    nClasses,       \* GetNQueueDiscClasses ()
    nFilters,       \* GetNPacketFilters ()
    m_queues,       \* internal queues: sequence of [unit, max, items]
    m_countBytes,   \* uint32_t, in words
    m_qAvg,         \* double, bytes
    m_markProb,     \* double
    m_maxBytes,     \* uint32_t, bytes
    m_qDelay,       \* Time, ticks
    m_rtrsEvent,    \* EventId: uid of the event last scheduled
    events,         \* CalculateProb events in the simulator's event list
    nextUid,        \* next event uid
    now,            \* Simulator::Now (), ticks
    nextId,         \* id of the next arriving packet
    uvCalls,        \* number of m_uv->GetValue () calls so far
    lastOp,         \* the handler that ran last and its outcome
    accepted,       \* ids for which DoEnqueue returned true, in order
    departed,       \* ids DoDequeue returned, in order
    samples,        \* m_countBytes samples (bytes) fed to the filter since InitializeParams
    qAvgs           \* m_qAvg after each of them

shqVars == <<phase, mode, m_maxSize, m_useEcn, m_linkBandwidth, m_alpha, m_maxP,
             nClasses, nFilters,
             m_queues, m_countBytes, m_qAvg, m_markProb, m_maxBytes, m_qDelay,
             m_rtrsEvent, events, nextUid, now, nextId, uvCalls, lastOp,
             accepted, departed, samples, qAvgs>>

VARIABLES
    lgcPhase,           \* "open", or "aborted" after NS_ABORT_MSG_IF
    m_ackedBytesEcn,    \* uint32_t, in words
    m_ackedBytesTotal,  \* uint32_t, in words
    tcp_m_alpha,        \* TcpLgc::m_alpha, double
    m_g,                \* double
    m_nextSeq,          \* SequenceNumber32, in words
    m_nextSeqFlag,
    m_useEct0,
    m_initialized,
    defined,            \* the members among m_alpha, m_g, m_useEct0 assigned a defined value
    tcb,                \* the TcpSocketState of the connection
    trace,              \* what m_traceCongestionEstimate was fired with, in order
    nSent,              \* segments sent so far
    nAcks,              \* PktsAcked calls so far
    lgcOp,              \* the last of PktsAcked and GetSsThresh to run, and what it did
    other               \* the second TcpLgc object once Fork has run, with its connection

lgcVars == <<lgcPhase, m_ackedBytesEcn, m_ackedBytesTotal, tcp_m_alpha, m_g, m_nextSeq,
             m_nextSeqFlag, m_useEct0, m_initialized, defined, tcb, trace, nSent, nAcks,
             lgcOp, other>>

---------------------------------------------------------------------------
(* The backing queue (DropTailQueue) and the QueueDisc base class *)

RECURSIVE SumSizes(_)
SumSizes(items) == IF items = <<>> THEN 0 ELSE Head(items).size + SumSizes(Tail(items))

NoItem == [id |-> 0, size |-> 0, ect |-> FALSE, ce |-> FALSE, ts |-> 0]

\* Queue::GetNPackets, GetNBytes (words), GetCurrentSize in the queue's unit
GetNPackets(q) == Len(q.items)
GetNBytes(q) == SumSizes(q.items)
QueueCurrentSize(q) == IF q.unit = "p" THEN GetNPackets(q) ELSE GetNBytes(q)
\* what one item adds to a QueueSize in unit md (operator+ (QueueSize, item))
ItemSize(item, md) == IF md = "p" THEN 1 ELSE item.size

GetNInternalQueues == Len(m_queues)
GetInternalQueue0 == m_queues[1]
\* QueueDisc::GetMaxSize and GetCurrentSize under SINGLE_INTERNAL_QUEUE: the
\* internal queue's limit once there is one, and the occupancy in its unit
GetMaxSize == IF GetNInternalQueues > 0
              THEN [unit |-> GetInternalQueue0.unit, value |-> GetInternalQueue0.max]
              ELSE [unit |-> mode, value |-> m_maxSize]
GetCurrentSize == IF GetMaxSize.unit = "p" THEN GetNPackets(GetInternalQueue0)
                  ELSE GetNBytes(GetInternalQueue0)

\* nQueued + item > GetMaxSize ()
\* (faulty variant: the arriving item is not counted)
ExceedsOffByOne(nQueued, item, max, md) == nQueued > max
Exceeds(nQueued, item, max, md) == nQueued + ItemSize(item, md) > max

\* DropTailQueue::Enqueue: [ok, q]; a full queue refuses the item
QueueEnqueue(q, item) ==
    IF Exceeds(QueueCurrentSize(q), item, q.max, q.unit)
    THEN [ok |-> FALSE, q |-> q]
    ELSE [ok |-> TRUE, q |-> [q EXCEPT !.items = Append(@, item)]]

\* QueueDisc::Mark: sets CE on an ECN-capable item, fails on a Not-ECT one
MarkItem(item) == [ok |-> item.ect, item |-> IF item.ect THEN [item EXCEPT !.ce = TRUE] ELSE item]

\* Simulator::Schedule (delay, &CalculateProb): a new event, its uid returned
Schedule(evs, uid, delay) == evs \cup {[uid |-> uid, ts |-> now + delay]}
\* EventId::Cancel: removes the event if it is still pending, else nothing
Cancel(evs, uid) == {e \in evs : e.uid # uid}

---------------------------------------------------------------------------
(* ShqQueueDisc *)

\* ShouldMark: u < m_markProb
\* (faulty variant: u <= m_markProb)
ShouldMarkLeq(u, prob) == DLeq(u, prob)
ShouldMark(u, prob) == DLess(u, prob)

\* the new m_qAvg: m_qAvg * (1.0 - m_alpha) + (m_countBytes * m_alpha)
\* (faulty variant: the two weights swapped)
EwmaSwapped(qAvg, countBytes, alpha) ==
    DAdd(DMul(qAvg, alpha), DMul(FromInt(countBytes * BytesPerWord), DSub(One, alpha)))
Ewma(qAvg, countBytes, alpha) ==
    DAdd(DMul(qAvg, DSub(One, alpha)), DMul(FromInt(countBytes * BytesPerWord), alpha))

\* p = m_maxP * m_qAvg / m_maxBytes
MarkProbOf(qAvg, maxBytes) == DDiv(DMul(m_maxP, qAvg), FromInt(maxBytes))

\* m_maxBytes = (m_linkBandwidth.GetBitRate () / 8.0) * m_tInterval.GetSeconds ()
MaxBytesOf(bitRate) == Trunc(DMul(Rat(bitRate, 8), IntervalSeconds))

\* the arriving item; QueueDisc::Enqueue stamps it before DoEnqueue runs
NewItem(size, ect) == [id |-> nextId, size |-> size, ect |-> ect, ce |-> FALSE, ts |-> now]

\* the handler that ran last: its outcome and return value, and the item it was
\* given (DoEnqueue, as the call left it) or returned (DoDequeue)
Op(op, outcome, retval, item) ==
    [op |-> op, outcome |-> outcome, retval |-> retval, item |-> item]

\* DoEnqueue as a function of the item and of the value u that m_uv would give:
\* the tag of the outcome, the return value, the item as the call leaves it, the
\* queues, m_countBytes and the number of values drawn from m_uv.
\* a faulty variant: only the packets that reach the internal queue are counted
AdmitPastCapacityCountsQueued(item, u) ==
    LET cb == Wrap32(m_countBytes + item.size)
        mk == MarkItem(item)
    IN  IF ShouldMark(u, m_markProb)
        THEN IF ~m_useEcn
             THEN [outcome |-> "unforced-drop", retval |-> FALSE, item |-> item,
                   queues |-> m_queues, countBytes |-> m_countBytes, draws |-> 1]
             ELSE IF ~mk.ok
             THEN [outcome |-> "unforced-drop", retval |-> FALSE, item |-> mk.item,
                   queues |-> m_queues, countBytes |-> m_countBytes, draws |-> 1]
             ELSE LET r == QueueEnqueue(GetInternalQueue0, mk.item)
                  IN  [outcome |-> "unforced-mark", retval |-> r.ok, item |-> mk.item,
                       queues |-> [m_queues EXCEPT ![1] = r.q],
                       countBytes |-> IF r.ok THEN cb ELSE m_countBytes, draws |-> 1]
        ELSE LET r == QueueEnqueue(GetInternalQueue0, item)
             IN  [outcome |-> IF r.ok THEN "accepted" ELSE "queue-drop", retval |-> r.ok,
                  item |-> item, queues |-> [m_queues EXCEPT ![1] = r.q],
                  countBytes |-> IF r.ok THEN cb ELSE m_countBytes, draws |-> 1]

\* The packet fits: it is counted, then ShouldMark decides
AdmitPastCapacity(item, u) ==
    LET cb == Wrap32(m_countBytes + item.size)
        mk == MarkItem(item)
    IN  IF ShouldMark(u, m_markProb)
        THEN IF ~m_useEcn
             THEN [outcome |-> "unforced-drop", retval |-> FALSE, item |-> item,
                   queues |-> m_queues, countBytes |-> cb, draws |-> 1]
             ELSE IF ~mk.ok
             THEN [outcome |-> "unforced-drop", retval |-> FALSE, item |-> mk.item,
                   queues |-> m_queues, countBytes |-> cb, draws |-> 1]
             ELSE LET r == QueueEnqueue(GetInternalQueue0, mk.item)
                  IN  [outcome |-> "unforced-mark", retval |-> r.ok, item |-> mk.item,
                       queues |-> [m_queues EXCEPT ![1] = r.q],
                       countBytes |-> cb, draws |-> 1]
        ELSE LET r == QueueEnqueue(GetInternalQueue0, item)
             IN  [outcome |-> IF r.ok THEN "accepted" ELSE "queue-drop", retval |-> r.ok,
                  item |-> item, queues |-> [m_queues EXCEPT ![1] = r.q],
                  countBytes |-> cb, draws |-> 1]

\* the result of a drop at the queue limit
ForcedDrop(item) ==
    [outcome |-> "forced-drop", retval |-> FALSE, item |-> item, queues |-> m_queues,
     countBytes |-> m_countBytes, draws |-> 0]

\* (faulty variant: the bytes are counted before the capacity check)
EnqueueResultCountsFirst(item, u) ==
    IF Exceeds(GetCurrentSize, item, GetMaxSize.value, GetMaxSize.unit)
    THEN [ForcedDrop(item) EXCEPT !.countBytes = Wrap32(m_countBytes + item.size)]
    ELSE AdmitPastCapacity(item, u)
\* a faulty variant: the capacity check uses the MaxSize attribute of the queue
\* disc instead of the limit of its internal queue
EnqueueResultOwnLimit(item, u) ==
    IF Exceeds(GetCurrentSize, item, m_maxSize, mode)
    THEN ForcedDrop(item)
    ELSE AdmitPastCapacity(item, u)
EnqueueResult(item, u) ==
    IF Exceeds(GetCurrentSize, item, GetMaxSize.value, GetMaxSize.unit)
    THEN ForcedDrop(item)
    ELSE AdmitPastCapacity(item, u)

\* what DoEnqueue never assigns
\* (faulty variant: the average and the probability are updated per packet)
DoEnqueueFramePerPacket ==
    /\ m_qAvg' = Ewma(m_qAvg, m_countBytes, m_alpha)
    /\ m_markProb' = MarkProbOf(m_qAvg', m_maxBytes)
    /\ UNCHANGED <<phase, mode, m_maxSize, m_useEcn, m_linkBandwidth, nClasses, nFilters,
                   m_maxBytes, m_qDelay, m_rtrsEvent, events, nextUid,
                   now, departed, samples, qAvgs>>
DoEnqueueFrame ==
    UNCHANGED <<phase, mode, m_maxSize, m_useEcn, m_linkBandwidth, nClasses, nFilters,
                m_qAvg, m_markProb, m_maxBytes, m_qDelay, m_rtrsEvent, events, nextUid,
                now, departed, samples, qAvgs>>

DoEnqueue(size, ect, u) ==
    /\ phase = "running"
    /\ nextId <= MaxArrivals
    /\ LET r == EnqueueResult(NewItem(size, ect), u)
       IN  /\ m_queues' = r.queues
           /\ m_countBytes' = r.countBytes
           /\ uvCalls' = uvCalls + r.draws
           /\ lastOp' = Op("enqueue", r.outcome, r.retval, r.item)
           /\ accepted' = IF r.retval THEN Append(accepted, r.item.id) ELSE accepted
    /\ nextId' = nextId + 1
    /\ DoEnqueueFrame
    /\ UNCHANGED <<m_alpha, m_maxP>>
    /\ UNCHANGED lgcVars

\* m_qDelay after DoDequeue removed item and left q
\* (faulty variant: no reset on an empty queue)
QueueDelayNoReset(item, q) == now - item.ts
QueueDelayAfter(item, q) == IF GetNBytes(q) = 0 THEN 0 ELSE now - item.ts

\* Queue::Dequeue: the head and the queue without it
QueueDequeue(q) == [item |-> Head(q.items), q |-> [q EXCEPT !.items = Tail(@)]]

\* a faulty variant: the packets behind the head are discarded with it
DequeueResultDropsAll ==
    IF GetNPackets(GetInternalQueue0) = 0
    THEN [item |-> NoItem, queues |-> m_queues, qDelay |-> m_qDelay]
    ELSE LET d == QueueDequeue(GetInternalQueue0)
         IN  [item |-> d.item, queues |-> [m_queues EXCEPT ![1].items = <<>>],
              qDelay |-> QueueDelayAfter(d.item, d.q)]

\* DoDequeue: the item returned (NoItem for none), the queues and m_qDelay
\* (faulty variant: the head is returned and stays queued)
DequeueResultKeepsHead ==
    IF GetNPackets(GetInternalQueue0) = 0
    THEN [item |-> NoItem, queues |-> m_queues, qDelay |-> m_qDelay]
    ELSE LET d == QueueDequeue(GetInternalQueue0)
         IN  [item |-> d.item, queues |-> m_queues, qDelay |-> QueueDelayAfter(d.item, d.q)]
DequeueResult ==
    IF GetNPackets(GetInternalQueue0) = 0
    THEN [item |-> NoItem, queues |-> m_queues, qDelay |-> m_qDelay]
    ELSE LET d == QueueDequeue(GetInternalQueue0)
         IN  [item |-> d.item, queues |-> [m_queues EXCEPT ![1] = d.q],
              qDelay |-> QueueDelayAfter(d.item, d.q)]

\* what DoDequeue never assigns
DoDequeueFrame ==
    UNCHANGED <<phase, mode, m_maxSize, m_useEcn, m_linkBandwidth, nClasses, nFilters,
                m_countBytes, m_qAvg, m_markProb, m_maxBytes, m_rtrsEvent, events,
                nextUid, now, nextId, uvCalls, accepted, samples, qAvgs>>

DoDequeue ==
    /\ phase = "running"
    /\ LET r == DequeueResult
       IN  /\ m_queues' = r.queues
           /\ m_qDelay' = r.qDelay
           /\ departed' = IF r.item = NoItem THEN departed ELSE Append(departed, r.item.id)
           /\ lastOp' = Op("dequeue", IF r.item = NoItem THEN "none" ELSE "item",
                           r.item # NoItem, r.item)
    /\ DoDequeueFrame
    /\ UNCHANGED <<m_alpha, m_maxP>>
    /\ UNCHANGED lgcVars

\* InitializeParams: the values it assigns (m_qCur, never read, is left out)
\* (faulty variant: the average and the probability are kept)
InitializeParamsKeepsAvg ==
    /\ m_countBytes' = 0
    /\ UNCHANGED <<m_qAvg, m_markProb>>
    /\ m_maxBytes' = MaxBytesOf(m_linkBandwidth)
    /\ samples' = <<>>
    /\ qAvgs' = <<>>
InitializeParams ==
    /\ m_countBytes' = 0
    /\ m_qAvg' = Zero
    /\ m_markProb' = Zero
    /\ m_maxBytes' = MaxBytesOf(m_linkBandwidth)
    /\ samples' = <<>>
    /\ qAvgs' = <<>>

\* CheckConfig: its return value and the internal queues it leaves
\* (faulty variant: the number of internal queues is not checked)
CheckConfigAnyQueues ==
    IF nClasses > 0 THEN [ok |-> FALSE, queues |-> m_queues]
    ELSE IF nFilters > 0 THEN [ok |-> FALSE, queues |-> m_queues]
    ELSE LET qs == IF GetNInternalQueues = 0
                   THEN <<[unit |-> GetMaxSize.unit, max |-> GetMaxSize.value,
                           items |-> <<>>]>>
                   ELSE m_queues
         IN  [ok |-> TRUE, queues |-> qs]
CheckConfig ==
    IF nClasses > 0 THEN [ok |-> FALSE, queues |-> m_queues]
    ELSE IF nFilters > 0 THEN [ok |-> FALSE, queues |-> m_queues]
    ELSE LET qs == IF GetNInternalQueues = 0
                   THEN <<[unit |-> GetMaxSize.unit, max |-> GetMaxSize.value,
                           items |-> <<>>]>>
                   ELSE m_queues
         IN  [ok |-> Len(qs) = 1, queues |-> qs]

\* QueueDisc::DoInitialize: CheckConfig, fatal when it fails, then InitializeParams
DoInitialize ==
    /\ phase = "constructed"
    /\ LET c == CheckConfig
       IN  /\ m_queues' = c.queues
           /\ IF c.ok
              THEN /\ phase' = "running"
                   /\ InitializeParams
                   /\ lastOp' = Op("initialize", "ok", TRUE, NoItem)
              ELSE /\ phase' = "aborted"
                   /\ lastOp' = Op("initialize", "config-error", FALSE, NoItem)
                   /\ UNCHANGED <<m_countBytes, m_qAvg, m_markProb, m_maxBytes, samples, qAvgs>>
    /\ UNCHANGED <<mode, m_maxSize, m_useEcn, m_linkBandwidth, nClasses, nFilters, m_qDelay,
                   m_rtrsEvent, events, nextUid, now, nextId, uvCalls, accepted, departed>>
    /\ UNCHANGED <<m_alpha, m_maxP>>
    /\ UNCHANGED lgcVars

\* InitializeParams run again on a controller in use (re-initialization)
Reinitialize ==
    /\ phase = "running"
    /\ InitializeParams
    /\ lastOp' = Op("reinitialize", "ok", TRUE, NoItem)
    /\ UNCHANGED <<phase, mode, m_maxSize, m_useEcn, m_linkBandwidth, nClasses, nFilters,
                   m_queues, m_qDelay, m_rtrsEvent, events, nextUid, now, nextId, uvCalls,
                   accepted, departed>>
    /\ UNCHANGED <<m_alpha, m_maxP>>
    /\ UNCHANGED lgcVars

\* the sample CalculateProb feeds to the filter: m_countBytes += nQueued * m_meanPktSize
\* (nQueued is GetCurrentSize ().GetValue (): packets, or bytes in byte mode)
BacklogValue(q) == IF q.unit = "p" THEN GetNPackets(q) ELSE GetNBytes(q) * BytesPerWord
SampleOf(countBytes, q) == Wrap32(countBytes + BacklogValue(q) * m_meanPktSize)

\* the events CalculateProb leaves: the one that fired is gone, the next is scheduled
\* (faulty variant: no successor is scheduled)
RescheduleNone(evs, fired, uid) == evs \ {fired}
Reschedule(evs, fired, uid) == Schedule(evs \ {fired}, uid, m_tInterval)

\* CalculateProb, run by the simulator when its event is due. Without an
\* internal queue (before CheckConfig, after DoDispose) GetInternalQueue (0)
\* is out of range and the run ends there.
CalculateProb ==
    /\ phase \in {"constructed", "running", "disposed"}
    /\ \E e \in events :
         /\ e.ts = now
         /\ IF GetNInternalQueues = 0
            THEN /\ phase' = "crashed"
                 /\ events' = events \ {e}
                 /\ lastOp' = Op("calculate", "crash", FALSE, NoItem)
                 /\ UNCHANGED <<m_countBytes, m_qAvg, m_markProb, m_rtrsEvent, nextUid,
                                samples, qAvgs>>
            ELSE LET sample == SampleOf(m_countBytes, GetInternalQueue0)
                     qAvg == Ewma(m_qAvg, sample, m_alpha)
                 IN  /\ m_qAvg' = qAvg
                     /\ m_markProb' = MarkProbOf(qAvg, m_maxBytes)
                     /\ m_countBytes' = 0
                     /\ events' = Reschedule(events, e, nextUid)
                     /\ m_rtrsEvent' = nextUid
                     /\ nextUid' = nextUid + 1
                     /\ samples' = IF phase = "running"
                                   THEN Append(samples, sample * BytesPerWord) ELSE samples
                     /\ qAvgs' = IF phase = "running" THEN Append(qAvgs, qAvg) ELSE qAvgs
                     /\ lastOp' = Op("calculate", "ok", TRUE, NoItem)
                     /\ UNCHANGED phase
    /\ UNCHANGED <<mode, m_maxSize, m_useEcn, m_linkBandwidth, nClasses, nFilters, m_queues,
                   m_maxBytes, m_qDelay, now, nextId, uvCalls, accepted, departed>>
    /\ UNCHANGED <<m_alpha, m_maxP>>
    /\ UNCHANGED lgcVars

\* the events DoDispose leaves: m_rtrsEvent.Cancel ()
\* (faulty variant: the event is not cancelled)
DisposeKeepTimer(evs, id) == evs
DisposeEvents(evs, id) == Cancel(evs, id)

\* DoDispose (m_uv = 0; m_rtrsEvent.Cancel (); QueueDisc::DoDispose () drops the
\* internal queues, classes and filters)
DoDispose ==
    /\ phase \in {"constructed", "running", "disposed"}
    /\ phase' = "disposed"
    /\ events' = DisposeEvents(events, m_rtrsEvent)
    /\ m_queues' = <<>>
    /\ nClasses' = 0
    /\ nFilters' = 0
    /\ lastOp' = Op("dispose", IF phase = "disposed" THEN "again" ELSE "ok", TRUE, NoItem)
    /\ UNCHANGED <<mode, m_maxSize, m_useEcn, m_linkBandwidth, m_countBytes, m_qAvg,
                   m_markProb, m_maxBytes, m_qDelay, m_rtrsEvent, nextUid, now, nextId,
                   uvCalls, accepted, departed, samples, qAvgs>>
    /\ UNCHANGED <<m_alpha, m_maxP>>
    /\ UNCHANGED lgcVars

\* the simulator advances its clock once no event is due
Tick ==
    /\ phase \in {"constructed", "running", "disposed"}
    /\ now < MaxTime
    /\ \A e \in events : e.ts > now
    /\ now' = now + 1
    /\ UNCHANGED <<phase, mode, m_maxSize, m_useEcn, m_linkBandwidth, nClasses, nFilters,
                   m_queues, m_countBytes, m_qAvg, m_markProb, m_maxBytes, m_qDelay,
                   m_rtrsEvent, events, nextUid, nextId, uvCalls, lastOp, accepted,
                   departed, samples, qAvgs>>
    /\ UNCHANGED <<m_alpha, m_maxP>>
    /\ UNCHANGED lgcVars

\* the controller as its constructor and the attribute system leave it: the
\* constructor runs before the attributes are set, so it schedules the first
\* CalculateProb with m_sUpdate still Time () = 0; the members InitializeParams
\* assigns are not initialized
UserQueue == [unit |-> UserQueueUnit, max |-> UserQueueMax, items |-> <<>>]

\* the controller as the constructor leaves it, attributes set as the user
\* chose; Alpha and MaxP are left to ShqInit and ShqInitConfigured
ShqConstructed ==
    /\ phase = "constructed"
    /\ m_queues \in {<<>>, <<UserQueue>>, <<UserQueue, UserQueue>>}
    /\ mode \in IF m_queues = <<>> THEN Modes ELSE {"p"}
    /\ m_maxSize = MaxSizeOf(mode)
    /\ m_useEcn \in BOOLEAN
    /\ m_linkBandwidth \in BitRates
    /\ nClasses \in 0..1
    /\ nFilters \in 0..1
    /\ m_countBytes \in GarbageU32
    /\ m_qAvg \in GarbageDouble
    /\ m_markProb \in GarbageDouble
    /\ m_maxBytes \in GarbageU32
    /\ m_qDelay = 0
    /\ m_rtrsEvent = 1
    /\ events = {[uid |-> 1, ts |-> 0]}
    /\ nextUid = 2
    /\ now = 0
    /\ nextId = 1
    /\ uvCalls = 0
    /\ lastOp = Op("construct", "ok", TRUE, NoItem)
    /\ accepted = <<>>
    /\ departed = <<>>
    /\ samples = <<>>
    /\ qAvgs = <<>>

\* Alpha and MaxP at their defaults
ShqInit ==
    /\ ShqConstructed
    /\ m_alpha = AlphaDefault
    /\ m_maxP = MaxPDefault

\* Alpha and MaxP set by the user to any value the attribute checkers admit
ShqInitConfigured ==
    /\ ShqConstructed
    /\ m_alpha \in AlphaValues
    /\ m_maxP \in MaxPValues

\* a deep buffer: MaxSize set to 5 MB, in bytes, on the default link, no
\* internal queue attached by the user
WideMaxSize == 5000000 \div BytesPerWord
ShqInitWide ==
    /\ phase = "constructed"
    /\ m_queues = <<>>
    /\ mode = "b"
    /\ m_maxSize = WideMaxSize
    /\ m_useEcn \in BOOLEAN
    /\ m_linkBandwidth = 100000000
    /\ nClasses \in 0..1
    /\ nFilters \in 0..1
    /\ m_countBytes \in GarbageU32
    /\ m_qAvg \in GarbageDouble
    /\ m_markProb \in GarbageDouble
    /\ m_maxBytes \in GarbageU32
    /\ m_qDelay = 0
    /\ m_rtrsEvent = 1
    /\ events = {[uid |-> 1, ts |-> 0]}
    /\ nextUid = 2
    /\ now = 0
    /\ nextId = 1
    /\ uvCalls = 0
    /\ lastOp = Op("construct", "ok", TRUE, NoItem)
    /\ accepted = <<>>
    /\ departed = <<>>
    /\ samples = <<>>
    /\ qAvgs = <<>>
    /\ m_alpha = AlphaDefault
    /\ m_maxP = MaxPDefault

ShqNext ==
    \/ \E size \in PktSizes, ect \in BOOLEAN, u \in UValues : DoEnqueue(size, ect, u)
    \/ DoDequeue
    \/ CalculateProb
    \/ DoInitialize
    \/ DoDispose
    \/ Tick

\* an arrival that by itself makes a backlog whose product with m_meanPktSize
\* passes 2^32: the smallest such size, in words
HugeSize == U32Mod \div (m_meanPktSize * BytesPerWord) + 1
HugeEnqueue == \E ect \in BOOLEAN, u \in UValues : DoEnqueue(HugeSize, ect, u)
ShqWideNext == ShqNext \/ HugeEnqueue

---------------------------------------------------------------------------
(* TcpLgc: the sender-side estimator and the connection it observes *)

MaxSent == 2          \* segments the connection sends
MaxPktsAcked == 2     \* calls of PktsAcked

m_segmentSize == 1448 \div BytesPerWord     \* TcpSocket::SegmentSize, in words
\* segmentsAcked of one PktsAcked call
SegCounts == {0, 2}
\* sequence numbers the connection may have reached when the estimator starts
\* observing: a fresh connection, and one about to wrap around 2^32
StartSeqs == {0, U32Mod - m_segmentSize}
\* values the uninitialized doubles m_alpha and m_g may hold
GarbageAlpha == {Zero, Rat(3, 2)}
GarbageGain == {Rat(1, 16), Rat(2, 1)}
\* values InitializeDctcpAlpha is called with
AlphaSeeds == {Rat(1, 2), One}
CwndValues == {10 * 1448}
\* bytesInFlight as the socket passes it to GetSsThresh
BytesInFlightValues == {0, 5 * 1448}

\* SequenceNumber32: addition wraps, comparison is serial-number arithmetic
HalfMaxSeq == (U32Mod \div 2) - 1
SeqAdd(a, n) == (a + n) % U32Mod
SeqGT(a, b) == \/ (a > b /\ a - b <= HalfMaxSeq)
               \/ (b > a /\ b - a > HalfMaxSeq)
SeqLT(a, b) == ~SeqGT(a, b) /\ a # b
SeqGE(a, b) == ~SeqLT(a, b)
\* segments sent and not yet acknowledged
Outstanding == ((tcb.m_nextTxSequence - tcb.m_lastAckedSeq + U32Mod) % U32Mod)
                   \div m_segmentSize

LgcOp(op, closed, result) == [op |-> op, closed |-> closed, result |-> result]

\* the fraction M of RFC 8257: m_ackedBytesEcn * 1.0 / m_ackedBytesTotal, or 0.0
BytesEcnFraction(ecn, total) == IF total > 0 THEN Rat(ecn, total) ELSE Zero
\* m_alpha = (1.0 - m_g) * m_alpha + m_g * bytesEcn
\* (faulty variant: the two weights exchanged)
NewAlphaSwapped(alpha, g, frac) == DAdd(DMul(g, alpha), DMul(DSub(One, g), frac))
NewAlpha(alpha, g, frac) == DAdd(DMul(DSub(One, g), alpha), DMul(g, frac))

\* the test that ends the observation window: tcb->m_lastAckedSeq >= m_nextSeq
\* (faulty variant: strict comparison)
WindowClosedStrict(lastAckedSeq, nextSeq) == SeqGT(lastAckedSeq, nextSeq)
WindowClosed(lastAckedSeq, nextSeq) == SeqGE(lastAckedSeq, nextSeq)

\* The socket calls Init when the congestion control is attached to it, before
\* the connection carries any segment: Connected guards what the socket does
\* on an established connection.
Connected == lgcPhase = "open" /\ m_initialized

\* the connection sends one more segment
Transmit ==
    /\ Connected
    /\ nSent < MaxSent
    /\ nSent' = nSent + 1
    /\ tcb' = [tcb EXCEPT !.m_nextTxSequence = SeqAdd(@, m_segmentSize)]
    /\ UNCHANGED <<lgcPhase, m_ackedBytesEcn, m_ackedBytesTotal, tcp_m_alpha, m_g, m_nextSeq,
                   m_nextSeqFlag, m_useEct0, m_initialized, defined, trace, nAcks, lgcOp>>
    /\ UNCHANGED other
    /\ UNCHANGED shqVars

\* a faulty variant: the window-close test comes before the counters are
\* updated, and the bytes of the closing batch open the next window
PktsAckedTestsFirst(adv, segmentsAcked, ece) ==
    /\ Connected
    /\ nAcks < MaxPktsAcked
    /\ adv <= Outstanding
    /\ LET t == [tcb EXCEPT !.m_lastAckedSeq = SeqAdd(@, adv * m_segmentSize),
                            !.m_ecnState = IF ece THEN "ECN_ECE_RCVD" ELSE "ECN_IDLE"]
           bytes == Wrap32(segmentsAcked * m_segmentSize)
           total == Wrap32(m_ackedBytesTotal + bytes)
           ecn == IF t.m_ecnState = "ECN_ECE_RCVD" THEN Wrap32(m_ackedBytesEcn + bytes)
                  ELSE m_ackedBytesEcn
           nextSeq == IF m_nextSeqFlag = FALSE THEN t.m_nextTxSequence ELSE m_nextSeq
       IN  /\ tcb' = t
           /\ m_nextSeqFlag' = TRUE
           /\ IF WindowClosed(t.m_lastAckedSeq, nextSeq)
              THEN LET alpha == NewAlpha(tcp_m_alpha, m_g,
                                     BytesEcnFraction(m_ackedBytesEcn, m_ackedBytesTotal))
                   IN  /\ tcp_m_alpha' = alpha
                       /\ trace' = Append(trace, <<m_ackedBytesEcn, m_ackedBytesTotal, alpha>>)
                       \* Reset (tcb)
                       /\ m_nextSeq' = t.m_nextTxSequence
                       /\ m_ackedBytesEcn' = IF ece THEN bytes ELSE 0
                       /\ m_ackedBytesTotal' = bytes
                       /\ defined' = IF {"m_alpha", "m_g"} \subseteq defined
                                     THEN defined ELSE defined \ {"m_alpha"}
                       /\ lgcOp' = LgcOp("PktsAcked", TRUE, 0)
              ELSE /\ m_ackedBytesTotal' = total
                   /\ m_ackedBytesEcn' = ecn
                   /\ m_nextSeq' = nextSeq
                   /\ lgcOp' = LgcOp("PktsAcked", FALSE, 0)
                   /\ UNCHANGED <<tcp_m_alpha, trace, defined>>
    /\ nAcks' = nAcks + 1
    /\ UNCHANGED <<lgcPhase, m_g, m_useEct0, m_initialized, nSent>>
    /\ UNCHANGED other
    /\ UNCHANGED shqVars

\* PktsAcked, called by the socket after an ACK moved m_lastAckedSeq forward by
\* adv segments and set the ECN state of the connection
\* (faulty variant: m_nextSeq follows m_nextTxSequence on every call)
PktsAckedMovesMark(adv, segmentsAcked, ece) ==
    /\ Connected
    /\ nAcks < MaxPktsAcked
    /\ adv <= Outstanding
    /\ LET t == [tcb EXCEPT !.m_lastAckedSeq = SeqAdd(@, adv * m_segmentSize),
                            !.m_ecnState = IF ece THEN "ECN_ECE_RCVD" ELSE "ECN_IDLE"]
           bytes == Wrap32(segmentsAcked * m_segmentSize)
           total == Wrap32(m_ackedBytesTotal + bytes)
           ecn == IF t.m_ecnState = "ECN_ECE_RCVD" THEN Wrap32(m_ackedBytesEcn + bytes)
                  ELSE m_ackedBytesEcn
           nextSeq == IF m_nextSeqFlag = FALSE THEN t.m_nextTxSequence ELSE m_nextSeq
       IN  /\ tcb' = t
           /\ m_nextSeqFlag' = TRUE
           /\ IF WindowClosed(t.m_lastAckedSeq, nextSeq)
              THEN LET alpha == NewAlpha(tcp_m_alpha, m_g, BytesEcnFraction(ecn, total))
                   IN  /\ tcp_m_alpha' = alpha
                       /\ trace' = Append(trace, <<ecn, total, alpha>>)
                       \* Reset (tcb)
                       /\ m_nextSeq' = t.m_nextTxSequence
                       /\ m_ackedBytesEcn' = 0
                       /\ m_ackedBytesTotal' = 0
                       /\ defined' = IF {"m_alpha", "m_g"} \subseteq defined
                                     THEN defined ELSE defined \ {"m_alpha"}
                       /\ lgcOp' = LgcOp("PktsAcked", TRUE, 0)
              ELSE /\ m_ackedBytesTotal' = total
                   /\ m_ackedBytesEcn' = ecn
                   /\ m_nextSeq' = t.m_nextTxSequence
                   /\ lgcOp' = LgcOp("PktsAcked", FALSE, 0)
                   /\ UNCHANGED <<tcp_m_alpha, trace, defined>>
    /\ nAcks' = nAcks + 1
    /\ UNCHANGED <<lgcPhase, m_g, m_useEct0, m_initialized, nSent>>
    /\ UNCHANGED other
    /\ UNCHANGED shqVars
PktsAcked(adv, segmentsAcked, ece) ==
    /\ Connected
    /\ nAcks < MaxPktsAcked
    /\ adv <= Outstanding
    /\ LET t == [tcb EXCEPT !.m_lastAckedSeq = SeqAdd(@, adv * m_segmentSize),
                            !.m_ecnState = IF ece THEN "ECN_ECE_RCVD" ELSE "ECN_IDLE"]
           bytes == Wrap32(segmentsAcked * m_segmentSize)
           total == Wrap32(m_ackedBytesTotal + bytes)
           ecn == IF t.m_ecnState = "ECN_ECE_RCVD" THEN Wrap32(m_ackedBytesEcn + bytes)
                  ELSE m_ackedBytesEcn
           nextSeq == IF m_nextSeqFlag = FALSE THEN t.m_nextTxSequence ELSE m_nextSeq
       IN  /\ tcb' = t
           /\ m_nextSeqFlag' = TRUE
           /\ IF WindowClosed(t.m_lastAckedSeq, nextSeq)
              THEN LET alpha == NewAlpha(tcp_m_alpha, m_g, BytesEcnFraction(ecn, total))
                   IN  /\ tcp_m_alpha' = alpha
                       /\ trace' = Append(trace, <<ecn, total, alpha>>)
                       \* Reset (tcb)
                       /\ m_nextSeq' = t.m_nextTxSequence
                       /\ m_ackedBytesEcn' = 0
                       /\ m_ackedBytesTotal' = 0
                       /\ defined' = IF {"m_alpha", "m_g"} \subseteq defined
                                     THEN defined ELSE defined \ {"m_alpha"}
                       /\ lgcOp' = LgcOp("PktsAcked", TRUE, 0)
              ELSE /\ m_ackedBytesTotal' = total
                   /\ m_ackedBytesEcn' = ecn
                   /\ m_nextSeq' = nextSeq
                   /\ lgcOp' = LgcOp("PktsAcked", FALSE, 0)
                   /\ UNCHANGED <<tcp_m_alpha, trace, defined>>
    /\ nAcks' = nAcks + 1
    /\ UNCHANGED <<lgcPhase, m_g, m_useEct0, m_initialized, nSent>>
    /\ UNCHANGED other
    /\ UNCHANGED shqVars

\* Init (tcb), called when the connection is established
\* (faulty variant: m_initialized is not set)
TcpInitNoLock ==
    /\ lgcPhase = "open"
    /\ tcb' = [tcb EXCEPT !.m_useEcn = "On", !.m_ecnMode = "DctcpEcn",
                          !.m_ectCodePoint = IF m_useEct0 THEN "Ect0" ELSE "Ect1"]
    /\ UNCHANGED <<lgcPhase, m_ackedBytesEcn, m_ackedBytesTotal, tcp_m_alpha, m_g, m_nextSeq,
                   m_nextSeqFlag, m_useEct0, m_initialized, defined, trace, nSent, nAcks,
                   lgcOp>>
    /\ UNCHANGED other
    /\ UNCHANGED shqVars
TcpInit ==
    /\ lgcPhase = "open"
    /\ tcb' = [tcb EXCEPT !.m_useEcn = "On", !.m_ecnMode = "DctcpEcn",
                          !.m_ectCodePoint = IF m_useEct0 THEN "Ect0" ELSE "Ect1"]
    /\ m_initialized' = TRUE
    /\ UNCHANGED <<lgcPhase, m_ackedBytesEcn, m_ackedBytesTotal, tcp_m_alpha, m_g, m_nextSeq,
                   m_nextSeqFlag, m_useEct0, defined, trace, nSent, nAcks, lgcOp>>
    /\ UNCHANGED other
    /\ UNCHANGED shqVars

\* InitializeDctcpAlpha (alpha): aborts once m_initialized is set
InitializeDctcpAlpha(alpha) ==
    /\ lgcPhase = "open"
    /\ IF m_initialized
       THEN /\ lgcPhase' = "aborted"
            /\ UNCHANGED <<tcp_m_alpha, defined>>
       ELSE /\ tcp_m_alpha' = alpha
            /\ defined' = defined \cup {"m_alpha"}
            /\ UNCHANGED lgcPhase
    /\ UNCHANGED <<m_ackedBytesEcn, m_ackedBytesTotal, m_g, m_nextSeq, m_nextSeqFlag,
                   m_useEct0, m_initialized, tcb, trace, nSent, nAcks, lgcOp>>
    /\ UNCHANGED other
    /\ UNCHANGED shqVars

\* GetSsThresh: static_cast<uint32_t> ((1 - m_alpha / 2.0) * tcb->m_cWnd)
\* (faulty variant: the window is reduced by m_alpha, not by half of it)
SsThreshOfFull(alpha, cWnd) == Trunc(DMul(DSub(One, alpha), FromInt(cWnd)))
SsThreshOf(alpha, cWnd) == Trunc(DMul(DSub(One, DMul(alpha, Rat(1, 2))), FromInt(cWnd)))

GetSsThresh(bytesInFlight) ==
    /\ Connected
    /\ lgcOp' = LgcOp("GetSsThresh", FALSE, SsThreshOf(tcp_m_alpha, tcb.m_cWnd))
    /\ UNCHANGED <<lgcPhase, m_ackedBytesEcn, m_ackedBytesTotal, tcp_m_alpha, m_g, m_nextSeq,
                   m_nextSeqFlag, m_useEct0, m_initialized, defined, tcb, trace, nSent, nAcks>>
    /\ UNCHANGED other
    /\ UNCHANGED shqVars

\* TcpLgc (const TcpLgc& sock): the members of the new object, each copied
\* from sock; a member sock never assigned is copied as the value it holds
\* (faulty variant: m_alpha is left out of the initializer list)
CopyWithoutAlpha ==
    [m_ackedBytesEcn |-> m_ackedBytesEcn, m_ackedBytesTotal |-> m_ackedBytesTotal,
     m_alpha |-> Rat(3, 2), m_nextSeq |-> m_nextSeq, m_nextSeqFlag |-> m_nextSeqFlag,
     m_g |-> m_g, m_useEct0 |-> m_useEct0, m_initialized |-> m_initialized,
     defined |-> defined \ {"m_alpha"}]
CopyConstructed ==
    [m_ackedBytesEcn |-> m_ackedBytesEcn, m_ackedBytesTotal |-> m_ackedBytesTotal,
     m_alpha |-> tcp_m_alpha, m_nextSeq |-> m_nextSeq, m_nextSeqFlag |-> m_nextSeqFlag,
     m_g |-> m_g, m_useEct0 |-> m_useEct0, m_initialized |-> m_initialized,
     defined |-> defined]

NoFork == [forked |-> FALSE]
\* the object the calls are made on, as a record of the same shape
This ==
    [m_ackedBytesEcn |-> m_ackedBytesEcn, m_ackedBytesTotal |-> m_ackedBytesTotal,
     m_alpha |-> tcp_m_alpha, m_nextSeq |-> m_nextSeq, m_nextSeqFlag |-> m_nextSeqFlag,
     m_g |-> m_g, m_useEct0 |-> m_useEct0, m_initialized |-> m_initialized,
     defined |-> defined]

\* Fork: CopyObject<TcpLgc> (this); the socket that forks gives the new object
\* a copy of its own TcpSocketState, and the new object has fired no trace
Fork ==
    /\ lgcPhase = "open"
    /\ other = NoFork
    /\ other' = [forked |-> TRUE, lgc |-> CopyConstructed, tcb |-> tcb, trace |-> <<>>]
    /\ UNCHANGED <<lgcPhase, m_ackedBytesEcn, m_ackedBytesTotal, tcp_m_alpha, m_g, m_nextSeq,
                   m_nextSeqFlag, m_useEct0, m_initialized, defined, tcb, trace, nSent,
                   nAcks, lgcOp>>
    /\ UNCHANGED shqVars

\* the next calls are made on the other of the two objects
Switch ==
    /\ lgcPhase = "open"
    /\ other # NoFork
    /\ other' = [forked |-> TRUE, lgc |-> This, tcb |-> tcb, trace |-> trace]
    /\ m_ackedBytesEcn' = other.lgc.m_ackedBytesEcn
    /\ m_ackedBytesTotal' = other.lgc.m_ackedBytesTotal
    /\ tcp_m_alpha' = other.lgc.m_alpha
    /\ m_nextSeq' = other.lgc.m_nextSeq
    /\ m_nextSeqFlag' = other.lgc.m_nextSeqFlag
    /\ m_g' = other.lgc.m_g
    /\ m_useEct0' = other.lgc.m_useEct0
    /\ m_initialized' = other.lgc.m_initialized
    /\ defined' = other.lgc.defined
    /\ tcb' = other.tcb
    /\ trace' = other.trace
    /\ UNCHANGED <<lgcPhase, nSent, nAcks, lgcOp>>
    /\ UNCHANGED shqVars

\* the estimator as TcpLgc::TcpLgc () leaves it: m_alpha, m_g and m_useEct0 are
\* neither in the initializer list nor set by an attribute
LgcFresh ==
    /\ lgcPhase = "open"
    /\ m_ackedBytesEcn = 0
    /\ m_ackedBytesTotal = 0
    /\ m_nextSeq = 0
    /\ m_nextSeqFlag = FALSE
    /\ m_initialized = FALSE
    /\ defined = {}
    /\ trace = <<>>
    /\ nSent = 0
    /\ nAcks = 0
    /\ lgcOp = LgcOp("construct", FALSE, 0)
    /\ other = NoFork

TcbAt(seq, cWnd) ==
    [m_nextTxSequence |-> seq, m_lastAckedSeq |-> seq, m_ecnState |-> "ECN_DISABLED",
     m_cWnd |-> cWnd, m_useEcn |-> "Off", m_ecnMode |-> "ClassicEcn",
     m_ectCodePoint |-> "Ect0"]

\* the estimator at rest, while the queue disc is the system observed
LgcIdle ==
    /\ LgcFresh
    /\ tcp_m_alpha = Zero
    /\ m_g = Rat(1, 16)
    /\ m_useEct0 = TRUE
    /\ tcb = TcbAt(0, 0)

LgcInit ==
    /\ LgcFresh
    /\ tcp_m_alpha \in GarbageAlpha
    /\ m_g \in GarbageGain
    /\ m_useEct0 \in BOOLEAN
    /\ tcb \in {TcbAt(seq, cWnd) : seq \in StartSeqs, cWnd \in CwndValues}

\* the queue disc at rest, while the estimator is the system observed
ShqIdle ==
    /\ ShqInit
    /\ mode = "p"
    /\ m_useEcn
    /\ m_linkBandwidth = 100000000
    /\ nClasses = 0
    /\ nFilters = 0
    /\ m_queues = <<>>
    /\ m_countBytes = 0
    /\ m_qAvg = Zero
    /\ m_markProb = Zero
    /\ m_maxBytes = 0

LgcSpecInit == ShqIdle /\ LgcInit

LgcNext ==
    \/ Transmit
    \/ \E adv \in 0..MaxSent, segmentsAcked \in SegCounts, ece \in BOOLEAN :
           PktsAcked(adv, segmentsAcked, ece)
    \/ TcpInit
    \/ \E alpha \in AlphaSeeds : InitializeDctcpAlpha(alpha)
    \/ \E bytesInFlight \in BytesInFlightValues : GetSsThresh(bytesInFlight)

---------------------------------------------------------------------------
(* Specifications *)

vars == <<shqVars, lgcVars>>

Init == ShqInit /\ LgcIdle
Next == ShqNext
Spec == Init /\ [][Next]_vars

\* Object::Initialize runs DoInitialize once; the same controller with
\* InitializeParams run again at any later time (re-initialization)
NextReinit == Next \/ Reinitialize
SpecReinit == Init /\ [][NextReinit]_vars

\* the controller with Alpha and MaxP as the user may set them
InitConfigured == ShqInitConfigured /\ LgcIdle
SpecConfigured == InitConfigured /\ [][Next]_vars

\* the controller in front of a deep buffer counted in bytes
InitWide == ShqInitWide /\ LgcIdle
SpecWide == InitWide /\ [][ShqWideNext]_vars

LgcSpec == LgcSpecInit /\ [][LgcNext]_vars

\* the estimator and the copy Fork makes of it, each called in turn
LgcForkInit == LgcSpecInit /\ tcb.m_nextTxSequence = 0
LgcForkNext == LgcNext \/ Fork \/ Switch
LgcForkSpec == LgcForkInit /\ [][LgcForkNext]_vars

\* the estimator when one PktsAcked call may report close to 2^32 bytes: the
\* largest segmentsAcked whose byte count still fits the uint32_t product
\* segmentsAcked * tcb->m_segmentSize
HugeSegments == (U32Mod - 1) \div m_segmentSize
HugeAck == \E adv \in 0..MaxSent : PktsAcked(adv, HugeSegments, FALSE)
LgcWideNext == LgcNext \/ HugeAck
LgcWideSpec == LgcSpecInit /\ [][LgcWideNext]_vars

---------------------------------------------------------------------------
(* Properties of ShqQueueDisc *)

Running == phase = "running"
AnyDoEnqueue == \E size \in PktSizes, ect \in BOOLEAN, u \in UValues : DoEnqueue(size, ect, u)
\* the arriving item would take the occupancy past the limit
WouldExceed(item) ==
    GetCurrentSize + (IF GetMaxSize.unit = "p" THEN 1 ELSE item.size) > GetMaxSize.value
QueueIds(q) == [i \in 1..Len(q.items) |-> q.items[i].id]

\* C1: on an initialized controller the occupancy of the queue, measured in the
\* unit of the limit, never exceeds the limit, whatever sequence of DoEnqueue,
\* DoDequeue and CalculateProb runs.
C1_Capacity == Running => GetCurrentSize <= GetMaxSize.value

\* a packet was refused at the limit and the queue is exactly full
C1_Witness ==
    /\ Running
    /\ lastOp.op = "enqueue" /\ lastOp.outcome = "forced-drop"
    /\ GetCurrentSize = GetMaxSize.value

\* C2: when the occupancy plus the arriving packet would exceed the limit,
\* DoEnqueue refuses the packet as a forced drop before anything else: the
\* queue, m_countBytes, m_qAvg, m_markProb and m_qDelay are unchanged, the
\* packet is not marked and no value is drawn from m_uv.
C2_Step ==
    nextId' # nextId =>
    \A size \in PktSizes, ect \in BOOLEAN, u \in UValues :
        (DoEnqueue(size, ect, u) /\ WouldExceed(NewItem(size, ect)))
        => /\ lastOp'.outcome = "forced-drop"
           /\ lastOp'.retval = FALSE
           /\ lastOp'.item.ce = FALSE
           /\ uvCalls' = uvCalls
           /\ accepted' = accepted
           /\ UNCHANGED <<m_queues, m_countBytes, m_qAvg, m_markProb, m_qDelay>>
C2_ForcedDrop == [][C2_Step]_vars

\* a forced drop of an ECN-capable packet while bytes of an earlier packet,
\* which drew from m_uv, were counted
C2_Witness ==
    /\ Running
    /\ lastOp.op = "enqueue" /\ lastOp.outcome = "forced-drop" /\ lastOp.item.ect
    /\ m_countBytes > 0
    /\ uvCalls > 0

\* C3: for a packet that passes the capacity check, with u the draw:
\* u < m_markProb with ECN enabled and an ECN-capable packet marks the packet and
\* appends it; u < m_markProb with ECN disabled or a packet that is not
\* ECN-capable drops it as an unforced drop and leaves the queue unchanged;
\* u >= m_markProb appends it unmarked. So m_markProb <= 0 selects no packet
\* and m_markProb >= 1 selects every packet.
C3_Step ==
    nextId' # nextId =>
    \A size \in PktSizes, ect \in BOOLEAN, u \in UValues :
        (DoEnqueue(size, ect, u) /\ ~WouldExceed(NewItem(size, ect)))
        => LET item == NewItem(size, ect)
               selected == lastOp'.outcome \in {"unforced-mark", "unforced-drop"}
               appended(it) == m_queues' = [m_queues EXCEPT ![1].items = Append(@, it)]
           IN  /\ uvCalls' = uvCalls + 1
               /\ (DLess(u, m_markProb) /\ m_useEcn /\ ect)
                  => /\ lastOp'.outcome = "unforced-mark"
                     /\ lastOp'.retval
                     /\ appended([item EXCEPT !.ce = TRUE])
               /\ (DLess(u, m_markProb) /\ (~m_useEcn \/ ~ect))
                  => /\ lastOp'.outcome = "unforced-drop"
                     /\ lastOp'.retval = FALSE
                     /\ m_queues' = m_queues
               /\ DLeq(m_markProb, u)
                  => /\ lastOp'.outcome = "accepted"
                     /\ lastOp'.retval
                     /\ appended(item)
               /\ DLeq(m_markProb, Zero) => ~selected
               /\ DLeq(One, m_markProb) => selected
C3_Outcome == [][C3_Step]_vars

\* a packet was marked and appended under a probability strictly between 0 and 1
C3_Witness ==
    /\ Running
    /\ lastOp.op = "enqueue" /\ lastOp.outcome = "unforced-mark"
    /\ lastOp.item.ce
    /\ DLess(Zero, m_markProb) /\ DLess(m_markProb, One)
    /\ GetNPackets(GetInternalQueue0) > 0

\* C4: CalculateProb does, in this order: m_countBytes += backlog * m_meanPktSize;
\* m_qAvg = m_qAvg * (1 - m_alpha) + m_countBytes * m_alpha;
\* m_markProb = m_maxP * m_qAvg / m_maxBytes; m_countBytes = 0. So m_qAvg after a
\* run of samples from m_qAvg = 0 depends on the samples and m_alpha only:
\* with m_alpha = 0.25 the samples 1000, 2000, 0 give 250, 687.5, 515.625.
RECURSIVE C4_Filter(_, _)
C4_Filter(smp, i) ==
    IF i = 0 THEN Zero
    ELSE DAdd(DMul(C4_Filter(smp, i - 1), DSub(One, m_alpha)), DMul(FromInt(smp[i]), m_alpha))
C4_Step ==
    (CalculateProb /\ Running)
    => LET q == GetInternalQueue0
           backlog == IF q.unit = "p" THEN Len(q.items) ELSE SumSizes(q.items) * BytesPerWord
           countBytes == m_countBytes + backlog * m_meanPktSize
           qAvg == DAdd(DMul(m_qAvg, DSub(One, m_alpha)),
                        DMul(FromInt(countBytes * BytesPerWord), m_alpha))
       IN  /\ m_qAvg' = qAvg
           /\ m_markProb' = DDiv(DMul(m_maxP, qAvg), FromInt(m_maxBytes))
           /\ m_countBytes' = 0
           /\ samples' = Append(samples, countBytes * BytesPerWord)
C4_History ==
    Running => /\ Len(qAvgs) = Len(samples)
               /\ \A i \in 1..Len(samples) : qAvgs[i] = C4_Filter(samples, i)
               /\ m_qAvg = C4_Filter(samples, Len(samples))
               /\ (m_alpha = Rat(1, 4) /\ samples = <<1000, 2000, 0>>)
                  => qAvgs = <<Rat(250, 1), Rat(1375, 2), Rat(4125, 8)>>
C4_Recompute == []C4_History /\ [][C4_Step]_vars

\* the samples 1000, 2000, 0 were fed to the filter
C4_Witness ==
    /\ Running
    /\ lastOp.op = "calculate"
    /\ samples = <<1000, 2000, 0>>
    /\ m_qAvg = Rat(4125, 8)

\* C5: DoEnqueue and DoDequeue leave m_markProb, m_qAvg and m_maxBytes unchanged:
\* m_markProb changes in CalculateProb (and InitializeParams) only, so between
\* two CalculateProb runs every ShouldMark compares against the same value.
C5_Step ==
    /\ (AnyDoEnqueue \/ DoDequeue) => UNCHANGED <<m_markProb, m_qAvg, m_maxBytes>>
    /\ (m_markProb' # m_markProb \/ m_qAvg' # m_qAvg) => (CalculateProb \/ DoInitialize)
C5_Frame == [][C5_Step]_vars

\* a packet was dropped by ShouldMark under a positive probability with bytes counted
C5_Witness ==
    /\ Running
    /\ lastOp.op = "enqueue" /\ lastOp.outcome = "unforced-drop"
    /\ DLess(Zero, m_markProb)
    /\ DLess(Zero, m_qAvg)
    /\ m_countBytes > 0

\* C6: from initialization to DoDispose exactly one CalculateProb event is
\* pending, the one m_rtrsEvent refers to, whatever DoEnqueue, DoDequeue,
\* CalculateProb and re-initialization steps have run.
C6_OnePending ==
    Running => /\ Cardinality(events) = 1
               /\ \A e \in events : e.uid = m_rtrsEvent /\ e.ts >= now

\* the controller was re-initialized after CalculateProb fired at least twice
C6_Witness ==
    /\ Running
    /\ lastOp.op = "reinitialize"
    /\ nextUid > 3
    /\ nextId > 1
    /\ Cardinality(events) = 1

\* C7: after DoDispose no CalculateProb runs and nothing it assigns changes;
\* cancelling an event that is no longer pending does nothing and is not an error.
C7_Step ==
    /\ phase = "disposed"
       => /\ phase' = "disposed"
          /\ ~CalculateProb
          /\ UNCHANGED <<m_countBytes, m_qAvg, m_markProb, events, nextUid, samples, qAvgs>>
    /\ (DoDispose /\ \A e \in events : e.uid # m_rtrsEvent) => events' = events
C7_NoFiring == [](phase = "disposed" => events = {}) /\ [][C7_Step]_vars

\* DoDispose ran a second time on a controller that had been running, and time
\* has passed
C7_Witness ==
    /\ phase = "disposed"
    /\ lastOp.op = "dispose" /\ lastOp.outcome = "again"
    /\ samples # <<>>
    /\ now = MaxTime
    /\ events = {}

\* C8: DoDequeue on an empty queue returns no item and changes nothing; on a
\* non-empty queue it removes and returns the head. Packets leave in the order
\* of their arrival.
C8_Observed ==
    <<phase, mode, m_maxSize, m_useEcn, m_linkBandwidth, nClasses, nFilters, m_queues,
      m_countBytes, m_qAvg, m_markProb, m_maxBytes, m_qDelay, m_rtrsEvent, events,
      nextUid, now, nextId, uvCalls, accepted, departed, samples, qAvgs>>
C8_Step ==
    DoDequeue
    => LET items == GetInternalQueue0.items
       IN  IF items = <<>>
           THEN /\ lastOp'.item = NoItem /\ lastOp'.retval = FALSE
                /\ UNCHANGED C8_Observed
           ELSE /\ lastOp'.item = Head(items)
                /\ m_queues' = [m_queues EXCEPT ![1].items = Tail(items)]
                /\ departed' = Append(departed, Head(items).id)
C8_Order ==
    Running => /\ accepted = departed \o QueueIds(GetInternalQueue0)
               /\ \A i, j \in 1..Len(accepted) : i < j => accepted[i] < accepted[j]
C8_Fifo == []C8_Order /\ [][C8_Step]_vars

\* two packets have left in order and a further DoDequeue found the queue empty
C8_Witness ==
    /\ Running
    /\ lastOp.op = "dequeue" /\ lastOp.outcome = "none"
    /\ Len(departed) = 2
    /\ departed = accepted

\* C9: whenever the queue holds zero bytes m_qDelay is exactly 0; after a
\* DoDequeue that leaves bytes in the queue m_qDelay is now minus the enqueue
\* time stamp of the packet just removed.
C9_Step ==
    (DoDequeue /\ GetInternalQueue0.items # <<>>)
    => LET removed == Head(GetInternalQueue0.items)
       IN  /\ SumSizes(m_queues'[1].items) > 0 => m_qDelay' = now - removed.ts
           /\ SumSizes(m_queues'[1].items) = 0 => m_qDelay' = 0
C9_Empty == (Running /\ SumSizes(GetInternalQueue0.items) = 0) => m_qDelay = 0
C9_QueueDelay == []C9_Empty /\ [][C9_Step]_vars

\* the last packet left after waiting in the queue: the delay is reported as 0
C9_Witness ==
    /\ Running
    /\ lastOp.op = "dequeue" /\ lastOp.outcome = "item"
    /\ now > lastOp.item.ts
    /\ SumSizes(GetInternalQueue0.items) = 0
    /\ m_qDelay = 0
    /\ Len(departed) = 2

---------------------------------------------------------------------------
(* Properties of TcpLgc *)

\* C10: a PktsAcked call closes the observation window (updates m_alpha, fires
\* the trace, resets the counters and moves m_nextSeq to the send pointer) if
\* and only if m_lastAckedSeq >= m_nextSeq in sequence-number order, where the
\* first call anchors m_nextSeq to m_nextTxSequence; m_nextSeqFlag never returns
\* to false; a call that does not close the window leaves m_alpha unchanged.
C10_Step ==
    /\ m_nextSeqFlag => m_nextSeqFlag'
    /\ \A adv \in 0..MaxSent, segmentsAcked \in SegCounts, ece \in BOOLEAN :
         (nAcks' # nAcks /\ PktsAcked(adv, segmentsAcked, ece))
         => LET mark == IF m_nextSeqFlag THEN m_nextSeq ELSE tcb.m_nextTxSequence
                closes == Len(trace') = Len(trace) + 1
            IN  /\ m_nextSeqFlag'
                /\ closes <=> SeqGE(tcb'.m_lastAckedSeq, mark)
                /\ closes <=> lgcOp'.closed
                /\ closes => /\ m_ackedBytesEcn' = 0
                             /\ m_ackedBytesTotal' = 0
                             /\ m_nextSeq' = tcb'.m_nextTxSequence
                             /\ trace'[Len(trace')][3] = tcp_m_alpha'
                /\ ~closes => /\ tcp_m_alpha' = tcp_m_alpha
                              /\ trace' = trace
                              /\ m_nextSeq' = mark
C10_WindowClose == [][C10_Step]_vars

\* the first call anchored the window without closing it and the second closed
\* it, changing m_alpha
C10_Witness ==
    /\ lgcPhase = "open"
    /\ nAcks = 2
    /\ lgcOp.op = "PktsAcked" /\ lgcOp.closed
    /\ Len(trace) = 1
    /\ tcb.m_lastAckedSeq = m_nextSeq
    /\ m_nextSeqFlag

\* C11: a PktsAcked call that closes the window computes the fraction
\* m_ackedBytesEcn / m_ackedBytesTotal (0 when no byte was counted), sets m_alpha
\* to m_alpha * (1 - m_g) + m_g * fraction, fires the trace exactly once with the
\* counters as they were before Reset and the new m_alpha, and in the same step
\* zeroes both counters and moves m_nextSeq to m_nextTxSequence. For 50 marked
\* bytes out of 200, m_alpha = 0.5 and m_g = 0.0625 the new m_alpha is 0.484375.
C11_Example == NewAlpha(Rat(1, 2), Rat(1, 16), BytesEcnFraction(50, 200)) = Rat(31, 64)
C11_Step ==
    \A adv \in 0..MaxSent, segmentsAcked \in SegCounts, ece \in BOOLEAN :
      (nAcks' # nAcks /\ PktsAcked(adv, segmentsAcked, ece))
      => LET mark == IF m_nextSeqFlag THEN m_nextSeq ELSE tcb.m_nextTxSequence
             bytes == (segmentsAcked * m_segmentSize) % U32Mod
             total == (m_ackedBytesTotal + bytes) % U32Mod
             ecn == IF ece THEN (m_ackedBytesEcn + bytes) % U32Mod ELSE m_ackedBytesEcn
             fraction == IF total > 0 THEN Rat(ecn, total) ELSE Zero
             alpha == DAdd(DMul(tcp_m_alpha, DSub(One, m_g)), DMul(m_g, fraction))
         IN  SeqGE(tcb'.m_lastAckedSeq, mark)
             => /\ tcp_m_alpha' = alpha
                /\ trace' = Append(trace, <<ecn, total, alpha>>)
                /\ m_ackedBytesEcn' = 0
                /\ m_ackedBytesTotal' = 0
                /\ m_nextSeq' = tcb'.m_nextTxSequence
C11_Arithmetic == []C11_Example /\ [][C11_Step]_vars

\* a window closed with half of its bytes marked; m_alpha moved from 1 to 31/32
\* and the trace carries the counters of the window
C11_Witness ==
    /\ lgcOp.op = "PktsAcked" /\ lgcOp.closed
    /\ trace = << <<2 * m_segmentSize, 4 * m_segmentSize, Rat(31, 32)>> >>
    /\ tcp_m_alpha = Rat(31, 32)
    /\ m_g = Rat(1, 16)
    /\ m_ackedBytesEcn = 0 /\ m_ackedBytesTotal = 0
    /\ m_nextSeq = tcb.m_nextTxSequence

\* C12: in every reachable state of the estimator m_ackedBytesEcn is at most
\* m_ackedBytesTotal, whatever segmentsAcked, segment size and ECN-Echo values
\* the calls of PktsAcked carry, the counters being the uint32_t members.
C12_EcnAtMostTotal == m_ackedBytesEcn <= m_ackedBytesTotal

\* the estimator has been given its m_alpha by InitializeDctcpAlpha
Seeded == "m_alpha" \in defined

\* C13: a call of InitializeDctcpAlpha on an instance that was seeded before
\* aborts and leaves m_alpha as it was, in every state of the instance, also
\* when both calls come before Init.
C13_Step ==
    \A alpha \in AlphaSeeds :
      (Seeded /\ InitializeDctcpAlpha(alpha))
      => /\ lgcPhase' = "aborted"
         /\ tcp_m_alpha' = tcp_m_alpha
C13_SeedOnce == [][C13_Step]_vars

\* C14: Init turns ECN on for the connection, selects Ect0 when m_useEct0 is
\* set and Ect1 otherwise, and sets m_initialized; m_initialized never becomes
\* false again, and from then on every call of InitializeDctcpAlpha aborts and
\* leaves m_alpha unchanged.
C14_Step ==
    /\ TcpInit => /\ tcb'.m_useEcn = "On"
                  /\ tcb'.m_ecnMode = "DctcpEcn"
                  /\ tcb'.m_ectCodePoint = (IF m_useEct0 THEN "Ect0" ELSE "Ect1")
                  /\ m_initialized'
    /\ m_initialized => m_initialized'
    /\ \A alpha \in AlphaSeeds :
         (m_initialized /\ InitializeDctcpAlpha(alpha))
         => /\ lgcPhase' = "aborted"
            /\ tcp_m_alpha' = tcp_m_alpha
C14_Locked == [][C14_Step]_vars

\* Init selected Ect1 on a connection that started with Ect0, and a later seed
\* of m_alpha aborted
C14_Witness ==
    /\ m_initialized
    /\ ~m_useEct0
    /\ tcb.m_useEcn = "On"
    /\ tcb.m_ectCodePoint = "Ect1"
    /\ lgcPhase = "aborted"

\* C15: GetSsThresh returns m_cWnd * (1 - m_alpha / 2) cut to an unsigned
\* integer and changes neither the estimator nor the connection; with m_alpha
\* in [0,1] the result lies between m_cWnd / 2 rounded down and m_cWnd; the
\* result is the same for every bytesInFlight.
C15_Step ==
    \A bytesInFlight \in BytesInFlightValues :
      (lgcOp' # lgcOp /\ GetSsThresh(bytesInFlight))
      => LET cWnd == tcb.m_cWnd
             n == tcp_m_alpha[1]
             d == tcp_m_alpha[2]
             result == lgcOp'.result
         IN  /\ d > 0 /\ n <= 2 * d => result = (cWnd * (2 * d - n)) \div (2 * d)
             /\ (d > 0 /\ 0 <= n /\ n <= d) => (cWnd \div 2 <= result /\ result <= cWnd)
             /\ UNCHANGED <<lgcPhase, m_ackedBytesEcn, m_ackedBytesTotal, tcp_m_alpha, m_g,
                            m_nextSeq, m_nextSeqFlag, m_useEct0, m_initialized, tcb, trace>>
C15_SsThresh == [][C15_Step]_vars

\* with m_alpha = 31/32 the product 14480 * 33/64 = 7466.25 was cut to 7466
C15_Witness ==
    /\ lgcOp.op = "GetSsThresh"
    /\ tcp_m_alpha = Rat(31, 32)
    /\ tcb.m_cWnd = 10 * 1448
    /\ lgcOp.result = 7466

\* C16: a PktsAcked call that does not close the window (m_lastAckedSeq below
\* the mark) adds the acknowledged bytes to the counters and changes nothing
\* else of the estimator: m_alpha, m_g, m_initialized, m_useEct0 and the ECN
\* configuration of the connection stay, m_nextSeq stays once it is anchored,
\* and the trace does not fire.
C16_Step ==
    \A adv \in 0..MaxSent, segmentsAcked \in SegCounts, ece \in BOOLEAN :
      (nAcks' # nAcks /\ PktsAcked(adv, segmentsAcked, ece))
      => LET mark == IF m_nextSeqFlag THEN m_nextSeq ELSE tcb.m_nextTxSequence
             bytes == (segmentsAcked * m_segmentSize) % U32Mod
         IN  SeqLT(tcb'.m_lastAckedSeq, mark)
             => /\ m_ackedBytesTotal' = (m_ackedBytesTotal + bytes) % U32Mod
                /\ m_ackedBytesEcn' = IF ece THEN (m_ackedBytesEcn + bytes) % U32Mod
                                      ELSE m_ackedBytesEcn
                /\ m_nextSeqFlag => m_nextSeq' = m_nextSeq
                /\ tcb'.m_useEcn = tcb.m_useEcn
                /\ tcb'.m_ecnMode = tcb.m_ecnMode
                /\ tcb'.m_ectCodePoint = tcb.m_ectCodePoint
                /\ tcb'.m_nextTxSequence = tcb.m_nextTxSequence
                /\ tcb'.m_cWnd = tcb.m_cWnd
                /\ UNCHANGED <<tcp_m_alpha, m_g, m_initialized, m_useEct0, trace, lgcPhase>>
C16_Frame == [][C16_Step]_vars

\* two calls counted bytes, the second after a further segment was sent, and
\* neither closed the window
C16_Witness ==
    /\ lgcOp.op = "PktsAcked" /\ ~lgcOp.closed
    /\ nAcks = 2
    /\ m_ackedBytesEcn = 2 * m_segmentSize
    /\ m_ackedBytesTotal = 4 * m_segmentSize
    /\ m_nextSeqFlag
    /\ m_nextSeq # tcb.m_nextTxSequence
    /\ trace = <<>>

InUnit(x) == DLeq(Zero, x) /\ DLeq(x, One)
GainInRange == DLess(Zero, m_g) /\ DLess(m_g, One)

\* C17: with m_alpha seeded in [0,1] and m_g in (0,1), m_alpha stays in [0,1]
\* through every PktsAcked call and every window close.
C17_Step == (Seeded /\ InUnit(tcp_m_alpha) /\ GainInRange) => InUnit(tcp_m_alpha')
C17_AlphaInUnit == [][C17_Step]_vars

AvgOrProbChanges == m_qAvg' # m_qAvg \/ m_markProb' # m_markProb

\* C18 (as claimed): on a controller in use CalculateProb is the only operation
\* that changes m_markProb or m_qAvg; DoEnqueue, DoDequeue, CheckConfig, a
\* re-initialization and DoDispose change neither.
C18_Step == (Running /\ AvgOrProbChanges) => CalculateProb
C18_OnlyCalculateProb == [][C18_Step]_vars

\* C18 (amended): on a controller in use m_markProb and m_qAvg change only in
\* CalculateProb and in a re-initialization, which sets both to 0; DoEnqueue,
\* DoDequeue and DoDispose change neither, and when a CalculateProb run ends no
\* other run is due before time has advanced.
C18_AmendedStep ==
    /\ (Running /\ AvgOrProbChanges) => (CalculateProb \/ Reinitialize)
    /\ Reinitialize => (m_qAvg' = Zero /\ m_markProb' = Zero)
    /\ (AnyDoEnqueue \/ DoDequeue \/ DoDispose) => ~AvgOrProbChanges
    /\ (nextUid' # nextUid /\ CalculateProb) => \A e \in events' : e.ts > now'
C18_Mutators == [][C18_AmendedStep]_vars

\* a re-initialization of a controller whose filter had advanced on admitted
\* traffic left both values at 0
C18_Witness ==
    /\ Running
    /\ lastOp.op = "reinitialize"
    /\ nextUid > 2
    /\ accepted # <<>>
    /\ m_qAvg = Zero /\ m_markProb = Zero

\* C19: CheckConfig succeeds exactly when the controller has no classes, no
\* packet filters and at most one internal queue attached beforehand; when it
\* succeeds the controller has exactly one internal queue, a new one with the
\* limit m_maxSize if none was attached; when it fails because of classes or
\* filters no queue is created.
C19_Step ==
    (phase = "constructed" /\ DoInitialize)
    => LET ok == phase' = "running"
       IN  /\ phase' \in {"running", "aborted"}
           /\ ok <=> (nClasses = 0 /\ nFilters = 0 /\ Len(m_queues) <= 1)
           /\ ok => /\ Len(m_queues') = 1
                    /\ Len(m_queues) = 1 => m_queues' = m_queues
                    /\ Len(m_queues) = 0
                       => m_queues' = <<[unit |-> mode, max |-> m_maxSize, items |-> <<>>]>>
           /\ (nClasses > 0 \/ nFilters > 0) => m_queues' = m_queues
C19_CheckConfig == [][C19_Step]_vars

\* initialization succeeded on a controller in byte mode without an attached
\* queue: the only internal queue is the one CheckConfig created
C19_Witness ==
    /\ phase = "running"
    /\ lastOp.op = "initialize"
    /\ mode = "b"
    /\ m_queues = <<[unit |-> "b", max |-> m_maxSize, items |-> <<>>]>>

\* C20: a controller configured with a negative Alpha or a negative MaxP is
\* rejected when it is set up: no DoEnqueue and no CalculateProb runs on an
\* initialized controller with such a value.
C20_Step ==
    (Running /\ ((nextId' # nextId /\ AnyDoEnqueue) \/ (nextUid' # nextUid /\ CalculateProb)))
    => (DLeq(Zero, m_alpha) /\ DLeq(Zero, m_maxP))
C20_Rejected == [][C20_Step]_vars

\* C21: Fork returns an object whose counters, m_alpha, m_g, m_nextSeq,
\* m_nextSeqFlag, m_useEct0 and m_initialized equal those of the original at
\* the time of the call, and afterwards PktsAcked, InitializeDctcpAlpha, Init
\* and GetSsThresh on either object leave the other object as it was.
C21_Step ==
    /\ Fork => /\ other'.lgc.m_ackedBytesEcn = m_ackedBytesEcn
               /\ other'.lgc.m_ackedBytesTotal = m_ackedBytesTotal
               /\ other'.lgc.m_alpha = tcp_m_alpha
               /\ other'.lgc.m_g = m_g
               /\ other'.lgc.m_nextSeq = m_nextSeq
               /\ other'.lgc.m_nextSeqFlag = m_nextSeqFlag
               /\ other'.lgc.m_useEct0 = m_useEct0
               /\ other'.lgc.m_initialized = m_initialized
               /\ This' = This
    /\ (other # NoFork /\ ~Switch) => other' = other
    /\ (other # NoFork /\ Switch) => (other'.lgc = This /\ This' = other.lgc)
C21_Fork == [][C21_Step]_vars

\* the two objects have diverged: the copy was made of a seeded estimator
\* before any window closed, one of the two closed a window since and the
\* other still holds the seed and empty counters
C21_Witness ==
    /\ other # NoFork
    /\ other.lgc.m_alpha = Rat(1, 2)
    /\ other.lgc.m_ackedBytesTotal = 0
    /\ other.trace = <<>>
    /\ trace # <<>>
    /\ tcp_m_alpha # Rat(1, 2)
    /\ lgcOp.op = "PktsAcked" /\ lgcOp.closed

\* C22: in every state of the initialized controller m_markProb lies in the
\* closed range [0, m_maxP].
C22_ProbInRange == Running => (DLeq(Zero, m_markProb) /\ DLeq(m_markProb, m_maxP))

\* C23: of two CalculateProb runs under the same m_maxP and m_maxBytes, the one
\* that produced the higher m_qAvg did not produce the lower m_markProb, for
\* every configuration the controller accepts.
C23_Monotone ==
    Running =>
      \A i, j \in 1..Len(qAvgs) :
        DLess(qAvgs[i], qAvgs[j])
        => ~DLess(MarkProbOf(qAvgs[j], m_maxBytes), MarkProbOf(qAvgs[i], m_maxBytes))

\* C24: between two recomputations m_countBytes never decreases: every DoEnqueue
\* that passes the capacity check adds exactly the packet's size to it, whether
\* the packet is then queued, marked or dropped by the probability test; a
\* DoEnqueue stopped by the capacity check and DoDequeue leave it alone; on a
\* running controller only CalculateProb lowers it, and CalculateProb leaves it 0
C24_Step ==
    /\ nextId' # nextId =>
         \A size \in PktSizes, ect \in BOOLEAN, u \in UValues :
           DoEnqueue(size, ect, u) =>
             m_countBytes' = IF WouldExceed(NewItem(size, ect))
                             THEN m_countBytes ELSE m_countBytes + size
    /\ DoDequeue => m_countBytes' = m_countBytes
    /\ (Running /\ m_countBytes' < m_countBytes) => CalculateProb
    /\ (nextUid' # nextUid /\ CalculateProb) => m_countBytes' = 0
C24_CountBytes == [][C24_Step]_vars
\* a packet dropped by the probability test has been counted, after an earlier
\* recomputation had reset the counter
C24_Witness ==
    /\ Running
    /\ lastOp.op = "enqueue"
    /\ lastOp.outcome = "unforced-drop"
    /\ Len(samples) >= 1
    /\ m_countBytes = lastOp.item.size

\* C25: in the sample a recomputation consumes, the backlog term covers only the
\* resident packets that were not counted at admission during the interval the
\* sample closes: the sample is the bytes counted at admission plus m_meanPktSize
\* times the backlog carried over from before the previous recomputation.
\* A resident packet belongs to the current interval when nothing has been
\* recomputed since initialization or when it arrived after the previous
\* recomputation, one interval ago; the formula speaks of the recomputations at
\* which the time stamps place every resident packet on one side.
AdmittedThisInterval(item) == Len(samples) = 0 \/ item.ts > now - m_tInterval
CarriedOver(q) == [q EXCEPT !.items = SelectSeq(q.items, LAMBDA it : ~AdmittedThisInterval(it))]
TimeStampsDecide ==
    Len(samples) = 0 \/ \A i \in 1..Len(GetInternalQueue0.items) :
                          GetInternalQueue0.items[i].ts # now - m_tInterval
C25_Step ==
    (Running /\ nextUid' # nextUid /\ CalculateProb /\ TimeStampsDecide) =>
        samples'[Len(samples')] =
            (m_countBytes + BacklogValue(CarriedOver(GetInternalQueue0)) * m_meanPktSize)
                * BytesPerWord
C25_NoDoubleCount == [][C25_Step]_vars

\* C26: recomputations are periodic and never stall: every recomputation fires
\* when it is due and leaves exactly one successor, due one interval later, and
\* no step leaves a controller that has not been torn down (nor stopped by a
\* configuration error) without a recomputation still to come
Stopped == phase \in {"disposed", "aborted"}
C26_Step ==
    /\ (nextUid' # nextUid /\ CalculateProb) =>
          events' = {[uid |-> m_rtrsEvent', ts |-> now + m_tInterval]}
    /\ ~Stopped' => \E e \in events' : e.ts >= now'
C26_Periodic == [][C26_Step]_vars

\* C27: every PktsAcked adds segmentsAcked * m_segmentSize to m_ackedBytesTotal,
\* and to m_ackedBytesEcn exactly when the batch carries ECN-Echo, before it
\* tests whether the window closes: a batch that closes the window is part of
\* the counters the estimate is computed from and traced with, and the next
\* window starts from 0; a batch that does not close it stays in the counters
AckedBytes(segmentsAcked) == Wrap32(segmentsAcked * m_segmentSize)
C27_Step ==
    nAcks' # nAcks =>
      \A adv \in 0..MaxSent, segmentsAcked \in SegCounts, ece \in BOOLEAN :
        PktsAcked(adv, segmentsAcked, ece) =>
          LET total == Wrap32(m_ackedBytesTotal + AckedBytes(segmentsAcked))
              ecn == IF ece THEN Wrap32(m_ackedBytesEcn + AckedBytes(segmentsAcked))
                     ELSE m_ackedBytesEcn
          IN  IF lgcOp'.closed
              THEN /\ trace' = Append(trace, <<ecn, total,
                                   NewAlpha(tcp_m_alpha, m_g, BytesEcnFraction(ecn, total))>>)
                   /\ m_ackedBytesTotal' = 0
                   /\ m_ackedBytesEcn' = 0
              ELSE /\ m_ackedBytesTotal' = total
                   /\ m_ackedBytesEcn' = ecn
                   /\ trace' = trace
C27_CountedBeforeClose == [][C27_Step]_vars
\* a batch has just closed a window that held marked and unmarked bytes
C27_Witness ==
    /\ lgcOp.op = "PktsAcked"
    /\ lgcOp.closed
    /\ Len(trace) >= 1
    /\ trace[Len(trace)][1] > 0
    /\ trace[Len(trace)][1] < trace[Len(trace)][2]
    /\ m_ackedBytesTotal = 0

\* C28: no CalculateProb runs before CheckConfig and InitializeParams have
\* completed: whenever the timer fires the controller is past its
\* initialization, so that the internal queue exists and m_countBytes, m_qAvg,
\* m_markProb and m_maxBytes are the initialized values or derived from them
C28_Step ==
    (events' # events /\ CalculateProb) =>
        (phase # "constructed" /\ GetNInternalQueues > 0)
C28_InitializedFirst == [][C28_Step]_vars

\* C29: whenever CalculateProb divides by m_maxBytes on an initialized
\* controller, m_maxBytes is not 0 and is the number of bytes the link carries
\* in one interval, (bit rate / 8) * interval, cut to a whole number of bytes
C29_Step ==
    (Running /\ nextUid' # nextUid /\ CalculateProb) =>
        /\ m_maxBytes # 0
        /\ m_maxBytes = Trunc(DMul(Rat(m_linkBandwidth, 8), IntervalSeconds))
C29_MaxBytesNonZero == [][C29_Step]_vars

\* C30: m_countBytes never wraps around: the sample a recomputation feeds to the
\* filter is the sum of the sizes counted at admission since the last
\* recomputation plus the backlog times m_meanPktSize, as numbers (compared in
\* words of BytesPerWord bytes)
C30_Step ==
    (Running /\ nextUid' # nextUid /\ CalculateProb) =>
        samples'[Len(samples')] \div BytesPerWord =
            m_countBytes + BacklogValue(GetInternalQueue0) * m_meanPktSize
C30_NoWrap == [][C30_Step]_vars

\* C31: under every configuration CheckConfig accepts, a queue the user attached
\* included, a packet that passes the capacity check and is not dropped by the
\* probability test is stored: the internal queue takes it, DoEnqueue returns
\* true and the packet is the last of the queue; in particular a packet that
\* was marked is not dropped afterwards by the same call
C31_Step ==
    nextId' # nextId =>
      \A size \in PktSizes, ect \in BOOLEAN, u \in UValues :
        (/\ DoEnqueue(size, ect, u)
         /\ lastOp'.outcome \notin {"forced-drop", "unforced-drop"}) =>
            /\ lastOp'.retval
            /\ lastOp'.outcome \in {"accepted", "unforced-mark"}
            /\ Len(GetInternalQueue0'.items) = Len(GetInternalQueue0.items) + 1
            /\ GetInternalQueue0'.items[Len(GetInternalQueue0'.items)] = lastOp'.item
            /\ lastOp'.item.id = nextId
C31_Stored == [][C31_Step]_vars
\* a marked packet has been stored in a queue the user attached, whose limit is
\* not the MaxSize of the queue disc
C31_Witness ==
    /\ Running
    /\ GetInternalQueue0.max = UserQueueMax
    /\ m_maxSize # UserQueueMax
    /\ lastOp.op = "enqueue"
    /\ lastOp.outcome = "unforced-mark"
    /\ lastOp.retval
    /\ Len(GetInternalQueue0.items) = 1
    /\ GetInternalQueue0.items[1] = lastOp.item

\* C32: every read of m_alpha and m_g comes after an assignment of a defined
\* value to them, on every path from construction: GetSsThresh reads a defined
\* m_alpha, and a PktsAcked that closes a window reads a defined m_alpha and a
\* defined m_g, also when InitializeDctcpAlpha was never called
C32_Step ==
    /\ (\E bytesInFlight \in BytesInFlightValues : GetSsThresh(bytesInFlight))
         => "m_alpha" \in defined
    /\ (/\ nAcks' # nAcks
        /\ lgcOp'.closed
        /\ \E adv \in 0..MaxSent, segmentsAcked \in SegCounts, ece \in BOOLEAN :
               PktsAcked(adv, segmentsAcked, ece))
         => {"m_alpha", "m_g"} \subseteq defined
C32_DefinedBeforeRead == [][C32_Step]_vars

\* C33: packet conservation: on a controller in use the internal queue holds
\* exactly the packets DoEnqueue returned true for and DoDequeue has not
\* returned yet; a packet DoEnqueue rejected is neither queued nor ever
\* returned, no packet is returned twice, and CalculateProb leaves the queue's
\* contents as they are
SeqIds(ids) == {ids[i] : i \in 1..Len(ids)}
Offered == 1..(nextId - 1)
C33_State ==
    Running =>
        /\ SeqIds(QueueIds(GetInternalQueue0)) = SeqIds(accepted) \ SeqIds(departed)
        /\ Len(GetInternalQueue0.items) = Len(accepted) - Len(departed)
        /\ SeqIds(departed) \subseteq SeqIds(accepted)
        /\ SeqIds(accepted) \subseteq Offered
        /\ Cardinality(SeqIds(departed)) = Len(departed)
        /\ \A id \in Offered \ SeqIds(accepted) :
             id \notin SeqIds(departed) /\ id \notin SeqIds(QueueIds(GetInternalQueue0))
C33_Step == (events' # events /\ CalculateProb) => m_queues' = m_queues
C33_Conservation == []C33_State /\ [][C33_Step]_vars
\* one packet is queued and another was rejected when a recomputation has run
C33_Witness ==
    /\ Running
    /\ lastOp.op = "calculate"
    /\ nextId = 3
    /\ Len(accepted) = 1
    /\ departed = <<>>
    /\ QueueIds(GetInternalQueue0) = accepted

=============================================================================
